---- MODULE Spec2Model ----
(***************************************************************************)
(* Model of the toy transactions engine of src/src/main.rs.                *)
(*                                                                         *)
(* Two specifications share the definitions of this module:                *)
(*   SpecAccount  process_account called on an account that was built with *)
(*                a pending transaction_log (as the #[test]s do), one loop *)
(*                iteration per step;                                      *)
(*   Spec         run(): the ingestion loop over the CSV records, then the *)
(*                finalization loop over the marked client ids;            *)
(*   SpecBackends run() and then, on the same records, the in-memory path  *)
(*                (store_record for every record, then print_accounts);    *)
(*   SpecLossy    run() over a store that may lose a record before the     *)
(*                finalization loop reads it.                              *)
(*                                                                         *)
(* Amounts are f32 in the source.  They are modelled as integers (whole    *)
(* units); F32 rounds an exact result to the nearest f32 (24 significant   *)
(* bits, ties to even), which is what the f32 `+=` and `-=` do on          *)
(* integer-valued operands.  The amounts the model draws are far below     *)
(* 2^24, the range in which every f32 sum and difference is exact.         *)
(***************************************************************************)
EXTENDS Integers, Sequences, FiniteSets

(***************************************************************************)
(* Bounds of the model                                                     *)
(***************************************************************************)
\* longest transaction_log an account is built with (SpecAccount)
MaxLogLen == 4
\* how many times process_account is called on the same account (SpecAccount)
MaxCalls == 2
\* longest input stream (Spec)
MaxInput == 3

\* transaction ids (u32) and amounts the logs of SpecAccount draw from
TxIds == {1, 2}
Amounts == {2, 3}
\* client ids (u16), transaction ids and amounts the input of Spec draws from
Clients == {0, 7, 65535}
RunTxIds == {1}
RunAmounts == {5}

(***************************************************************************)
(* f32 arithmetic on integer-valued operands                               *)
(***************************************************************************)
\* largest magnitude up to which every integer is an f32 (2^24)
F32ExactMax == 16777216

Abs(x) == IF x < 0 THEN -x ELSE x

RECURSIVE Ulp(_, _)
\* spacing of the f32 values around magnitude m: u doubles with each binade
Ulp(m, u) == IF m < F32ExactMax * u THEN u ELSE Ulp(m, 2 * u)

\* round to nearest f32, ties to even significand
F32(x) ==
  IF Abs(x) <= F32ExactMax THEN x
  ELSE LET m == Abs(x)
           u == Ulp(m, 1)
           lo == (m \div u) * u
           r == m - lo
           up == \/ 2 * r > u
                 \/ 2 * r = u /\ (lo \div u) % 2 = 1
           v == IF up THEN lo + u ELSE lo
       IN  IF x < 0 THEN -v ELSE v

F32Add(a, b) == F32(a + b)
F32Sub(a, b) == F32(a - b)

(***************************************************************************)
(* TransactionOp, RawRecord, Account                                       *)
(***************************************************************************)
\* enum TransactionOp: a tuple <<variant, tx_id>> or <<variant, tx_id, amount>>
Deposit(tx, amount) == <<"Deposit", tx, amount>>
Withdraw(tx, amount) == <<"Withdraw", tx, amount>>
Dispute(tx) == <<"Dispute", tx>>
Resolve(tx) == <<"Resolve", tx>>
Chargeback(tx) == <<"Chargeback", tx>>

Kind(op) == op[1]
TxOf(op) == op[2]
AmountOf(op) == op[3]

None == <<"None">>
Some(x) == <<"Some", x>>

\* impl From<&RawRecord> for TransactionOp
TransactionOpFrom(record) ==
  CASE record.transaction_type = "Deposit" -> Deposit(record.transaction, record.amount)
    [] record.transaction_type = "Withdrawal" -> Withdraw(record.transaction, record.amount)
    [] record.transaction_type = "Dispute" -> Dispute(record.transaction)
    [] record.transaction_type = "Resolve" -> Resolve(record.transaction)
    [] record.transaction_type = "Chargeback" -> Chargeback(record.transaction)

\* the Account literal run builds for a client with no stored record
NewAccount(client, log) ==
  [id |-> client, available_funds |-> 0, held_funds |-> 0, total_funds |-> 0,
   locked |-> FALSE, in_dispute |-> FALSE, last_processed_transaction |-> 0,
   transaction_log |-> log]

(***************************************************************************)
(* find_transaction, find_transaction_amount, process_account              *)
(***************************************************************************)
find_transaction_amount(transaction_op) ==
  IF Kind(transaction_op) \in {"Deposit", "Withdraw"}
  THEN Some(AmountOf(transaction_op))
  ELSE None

\* find_transaction as it would be if the search passed over control ops
find_transaction_skips_controls(id, transaction_log) ==
  LET hits == {i \in 1..Len(transaction_log) :
                 /\ TxOf(transaction_log[i]) = id
                 /\ Kind(transaction_log[i]) \in {"Deposit", "Withdraw"}}
  IN  IF hits = {} THEN None
      ELSE Some(transaction_log[CHOOSE i \in hits : \A j \in hits : i <= j])

\* iter().find(): the first entry of the log whose id is `id`, of any variant
find_transaction(id, transaction_log) ==
  LET hits == {i \in 1..Len(transaction_log) : TxOf(transaction_log[i]) = id}
  IN  IF hits = {} THEN None
      ELSE Some(transaction_log[CHOOSE i \in hits : \A j \in hits : i <= j])

\* the amount the two lookups of a Dispute/Resolve/Chargeback arm end with
LookupAmount(id, transaction_log) ==
  LET found == find_transaction(id, transaction_log)
  IN  IF found = None THEN None ELSE find_transaction_amount(found[2])

\* TransactionOp::Deposit(tx_id, amount) => { .. }
DepositArm(account, tx_id, amount) ==
  [account EXCEPT !.available_funds = F32Add(@, amount),
                  !.total_funds = F32Add(@, amount),
                  !.last_processed_transaction = tx_id]

\* WithdrawArm as it would be with a balance floor: a Withdraw of more than
\* is available is skipped
WithdrawArmFloored(account, tx_id, amount) ==
  IF account.available_funds < amount THEN account
  ELSE [account EXCEPT !.available_funds = F32Sub(@, amount),
                       !.total_funds = F32Sub(@, amount),
                       !.last_processed_transaction = tx_id]

\* TransactionOp::Withdraw(tx_id, amount) => { .. }
WithdrawArm(account, tx_id, amount) ==
  [account EXCEPT !.available_funds = F32Sub(@, amount),
                  !.total_funds = F32Sub(@, amount),
                  !.last_processed_transaction = tx_id]

\* DisputeArm as it would be if the hold also left the total
DisputeArmDebitsTotal(account, tx_id, amount) ==
  [account EXCEPT !.in_dispute = TRUE,
                  !.available_funds = F32Sub(@, amount),
                  !.held_funds = F32Add(@, amount),
                  !.total_funds = F32Sub(@, amount),
                  !.last_processed_transaction = tx_id]

\* TransactionOp::Dispute(tx_id) => { .. }, once the lookups gave `amount`
DisputeArm(account, tx_id, amount) ==
  [account EXCEPT !.in_dispute = TRUE,
                  !.available_funds = F32Sub(@, amount),
                  !.held_funds = F32Add(@, amount),
                  !.last_processed_transaction = tx_id]

\* ResolveArm as it would be if the release forgot to credit available_funds
ResolveArmNoCredit(account, tx_id, amount) ==
  [account EXCEPT !.held_funds = F32Sub(@, amount)]

\* ResolveArm as it would be if it recorded its id like the other arms
ResolveArmSetsLast(account, tx_id, amount) ==
  [account EXCEPT !.held_funds = F32Sub(@, amount),
                  !.available_funds = F32Add(@, amount),
                  !.last_processed_transaction = tx_id]

\* TransactionOp::Resolve(tx_id) => { .. }, once the lookups gave `amount`
ResolveArm(account, tx_id, amount) ==
  [account EXCEPT !.held_funds = F32Sub(@, amount),
                  !.available_funds = F32Add(@, amount)]

\* ChargebackArm as it would be if the reversal forgot total_funds
ChargebackArmKeepsTotal(account, tx_id, amount) ==
  [account EXCEPT !.held_funds = F32Sub(@, amount),
                  !.locked = TRUE,
                  !.last_processed_transaction = tx_id]

\* ChargebackArm as it would be if the reversal forgot to lock the account
ChargebackArmNoLock(account, tx_id, amount) ==
  [account EXCEPT !.held_funds = F32Sub(@, amount),
                  !.total_funds = F32Sub(@, amount),
                  !.last_processed_transaction = tx_id]

\* TransactionOp::Chargeback(tx_id) => { .. }, once the lookups gave `amount`
ChargebackArm(account, tx_id, amount) ==
  [account EXCEPT !.held_funds = F32Sub(@, amount),
                  !.total_funds = F32Sub(@, amount),
                  !.locked = TRUE,
                  !.last_processed_transaction = tx_id]

\* LookupNone as it would be if a failed lookup skipped the op (`continue`)
LookupNoneSkips(account) == [ret |-> FALSE, account |-> account]

\* `None => { return; }` of a lookup: process_account returns at once
LookupNone(account) == [ret |-> TRUE, account |-> account]

\* One iteration of the loop of process_account: the match on `transaction`.
\* ret is TRUE when the arm returns from process_account.
MatchArm(account, transaction) ==
  LET tx_id == TxOf(transaction)
      looked == LookupAmount(tx_id, account.transaction_log)
      amount == looked[2]
  IN
  CASE Kind(transaction) = "Deposit" ->
         [ret |-> FALSE,
          account |-> DepositArm(account, tx_id, AmountOf(transaction))]
    [] Kind(transaction) = "Withdraw" ->
         [ret |-> FALSE,
          account |-> WithdrawArm(account, tx_id, AmountOf(transaction))]
    [] Kind(transaction) = "Dispute" ->
         IF looked = None THEN LookupNone(account)
         ELSE [ret |-> FALSE, account |-> DisputeArm(account, tx_id, amount)]
    [] Kind(transaction) = "Resolve" ->
         IF looked = None THEN LookupNone(account)
         ELSE [ret |-> FALSE, account |-> ResolveArm(account, tx_id, amount)]
    [] Kind(transaction) = "Chargeback" ->
         IF looked = None THEN LookupNone(account)
         ELSE [ret |-> FALSE, account |-> ChargebackArm(account, tx_id, amount)]

RECURSIVE ReplayRange(_, _, _)
\* the loop of process_account over log positions i..n; ret as in MatchArm
ReplayRange(account, i, n) ==
  IF i > n THEN [ret |-> FALSE, account |-> account]
  ELSE LET r == MatchArm(account, account.transaction_log[i])
       IN  IF r.ret THEN r ELSE ReplayRange(r.account, i + 1, n)

\* fn process_account(account: &mut Account): the account it leaves behind
process_account(account) ==
  LET r == ReplayRange(account, 1, Len(account.transaction_log))
  IN  IF r.ret THEN r.account
      ELSE [r.account EXCEPT !.transaction_log = <<>>]

(***************************************************************************)
(* The persistent store: keys, bincode, sled, and the client bit array     *)
(***************************************************************************)
RECURSIVE to_string(_)
\* u16::to_string: the decimal digits of n, most significant first
to_string(n) == IF n < 10 THEN <<n>> ELSE Append(to_string(n \div 10), n % 10)

VariantIndex(kind) ==
  CASE kind = "Deposit" -> 0 [] kind = "Withdraw" -> 1 [] kind = "Dispute" -> 2
    [] kind = "Resolve" -> 3 [] kind = "Chargeback" -> 4

BoolByte(b) == IF b THEN 1 ELSE 0

RECURSIVE EncodeOps(_)
\* bincode of the elements of a Vec<TransactionOp>: variant index, then fields
EncodeOps(log) ==
  IF log = <<>> THEN <<>>
  ELSE LET op == Head(log)
           enc == IF Kind(op) \in {"Deposit", "Withdraw"}
                  THEN <<VariantIndex(Kind(op)), TxOf(op), AmountOf(op)>>
                  ELSE <<VariantIndex(Kind(op)), TxOf(op)>>
       IN  enc \o EncodeOps(Tail(log))

\* bincode::serialize(&account): the fields in declaration order, the Vec
\* with its length first
serialize(account) ==
  <<account.id, account.available_funds, account.held_funds, account.total_funds,
    BoolByte(account.locked), BoolByte(account.in_dispute),
    account.last_processed_transaction, Len(account.transaction_log)>>
  \o EncodeOps(account.transaction_log)

RECURSIVE DecodeOps(_, _, _)
\* n ops read from position pos of bytes: Some(<<ops, next position>>) or None
DecodeOps(bytes, pos, n) ==
  IF n = 0 THEN Some(<<<<>>, pos>>)
  ELSE IF pos + 1 > Len(bytes) THEN None
  ELSE LET v == bytes[pos]
           tx == bytes[pos + 1]
       IN  IF v \in {0, 1}
           THEN IF pos + 2 > Len(bytes) THEN None
                ELSE LET rest == DecodeOps(bytes, pos + 3, n - 1)
                         op == IF v = 0 THEN Deposit(tx, bytes[pos + 2])
                               ELSE Withdraw(tx, bytes[pos + 2])
                     IN  IF rest = None THEN None
                         ELSE Some(<<<<op>> \o rest[2][1], rest[2][2]>>)
           ELSE IF v \in {2, 3, 4}
           THEN LET rest == DecodeOps(bytes, pos + 2, n - 1)
                    op == IF v = 2 THEN Dispute(tx)
                          ELSE IF v = 3 THEN Resolve(tx) ELSE Chargeback(tx)
                IN  IF rest = None THEN None
                    ELSE Some(<<<<op>> \o rest[2][1], rest[2][2]>>)
           ELSE None

\* bincode::deserialize::<Account>(&bytes): Some(account), or None for Err
deserialize(bytes) ==
  IF Len(bytes) < 8 \/ bytes[5] \notin {0, 1} \/ bytes[6] \notin {0, 1} THEN None
  ELSE LET ops == DecodeOps(bytes, 9, bytes[8])
       IN  IF ops = None THEN None
           ELSE Some([id |-> bytes[1], available_funds |-> bytes[2],
                      held_funds |-> bytes[3], total_funds |-> bytes[4],
                      locked |-> bytes[5] = 1, in_dispute |-> bytes[6] = 1,
                      last_processed_transaction |-> bytes[7],
                      transaction_log |-> ops[2][1]])

\* sled_db.get(key): the tree is a function from the keys it holds
SledGet(db, key) == IF key \in DOMAIN db THEN Some(db[key]) ELSE None

\* SledInsert as it would be if the insert replaced the whole tree
SledInsertReplacesAll(db, key, value) == [x \in {key} |-> value]

\* sled_db.insert(key, value): whole-value replace
SledInsert(db, key, value) ==
  [x \in DOMAIN db \cup {key} |-> IF x = key THEN value ELSE db[x]]

\* BitArr!(for 65535, in u16): the bits asked for, and the bits of one element
BitArrBits == 65535
StoreBits == 16
\* BitArrLen as it would be if the array held the bits asked for and no more
BitArrLenAsked == BitArrBits

\* the array holds whole u16 elements, and its length is all of their bits
BitArrLen == ((BitArrBits + StoreBits - 1) \div StoreBits) * StoreBits

\* BitSet as it would be if the bits were numbered from one
BitSetShifted(bits, index) ==
  IF index + 1 < BitArrLen THEN Some(bits \cup {index + 1}) ELSE None

\* client_accounts.set(index, true) on the set of one-bits; None is the
\* index-out-of-bounds panic
BitSet(bits, index) == IF index < BitArrLen THEN Some(bits \cup {index}) ELSE None

\* NextOne as it would be if the one-bits came highest first
NextOneLargest(bits, from) ==
  LET rest == {i \in bits : i >= from}
  IN  IF rest = {} THEN None
      ELSE Some(CHOOSE i \in rest : \A j \in rest : i >= j)

\* iter_ones() that has passed every index below `from`: the next one-bit
NextOne(bits, from) ==
  LET rest == {i \in bits : i >= from}
  IN  IF rest = {} THEN None
      ELSE Some(CHOOSE i \in rest : \A j \in rest : i <= j)

\* impl fmt::Display for Account: the fields of an output row
Row(account) ==
  <<account.id, account.available_funds, account.held_funds,
    account.total_funds, account.locked>>

(***************************************************************************)
(* State                                                                   *)
(***************************************************************************)
VARIABLES
  \* process_account(account) called directly, as the #[test]s do
  account,          \* the Account behind `account: &mut Account`
  k,                \* position of the loop in account.transaction_log
  pc,               \* "ready", "loop" (inside process_account), "returned"
  calls,            \* calls of process_account on this account so far
  given_log,        \* the transaction_log the account was built with
  \* run(one_pass, csv_reader)
  one_pass,         \* the argument of run
  input,            \* the records csv_reader yields
  line_number,      \* records read so far
  sled_db,          \* the sled tree: key |-> value
  client_accounts,  \* the bit array, as the set of its one-bits
  cursor,           \* iter_ones has passed every index below cursor
  output,           \* the account rows printed to stdout
  diagnostics,      \* the client ids reported on stderr
  phase,            \* "ingest", "finalize", "done", "failed", "panicked"
  \* the in-memory path: store_record, print_accounts
  accounts,         \* the HashMap<u16, Account>: client |-> Account
  stored,           \* records handed to store_record so far
  printed,          \* the keys iter_mut() of print_accounts has yielded
  mem_output,       \* the account rows print_accounts printed
  mem_phase         \* "store", "print", "done"

accountVars == <<account, k, pc, calls, given_log>>
runVars == <<one_pass, input, line_number, sled_db, client_accounts, cursor,
             output, diagnostics, phase>>
memVars == <<accounts, stored, printed, mem_output, mem_phase>>
vars == <<account, k, pc, calls, given_log, one_pass, input, line_number,
          sled_db, client_accounts, cursor, output, diagnostics, phase,
          accounts, stored, printed, mem_output, mem_phase>>

\* the values TransactionOp takes over the modelled ids and amounts
Ops ==
  {Deposit(t, a) : t \in TxIds, a \in Amounts}
    \cup {Withdraw(t, a) : t \in TxIds, a \in Amounts}
    \cup {Dispute(t) : t \in TxIds}
    \cup {Resolve(t) : t \in TxIds}
    \cup {Chargeback(t) : t \in TxIds}

Logs == UNION {[1..n -> Ops] : n \in 0..MaxLogLen}

TransactionTypes == {"Deposit", "Withdrawal", "Dispute", "Resolve", "Chargeback"}

\* the values RawRecord takes over the modelled clients, ids and amounts
RawRecords ==
  [transaction_type : TransactionTypes, client : Clients,
   transaction : RunTxIds, amount : RunAmounts]

Inputs == UNION {[1..n -> RawRecords] : n \in 0..MaxInput}

\* run has not been entered
RunIdle ==
  /\ one_pass = FALSE /\ input = <<>> /\ line_number = 0 /\ sled_db = <<>>
  /\ client_accounts = {} /\ cursor = 0 /\ output = <<>> /\ diagnostics = <<>>
  /\ phase = "idle"

\* the in-memory path at its start: an empty HashMap, nothing printed
MemStart ==
  /\ accounts = <<>> /\ stored = 0 /\ printed = {} /\ mem_output = <<>>
  /\ mem_phase = "store"

\* no account is under a direct call of process_account
AccountIdle ==
  /\ account = NewAccount(0, <<>>) /\ k = 0 /\ pc = "idle" /\ calls = 0
  /\ given_log = <<>>

(***************************************************************************)
(* SpecAccount: process_account on an account built with a pending log     *)
(***************************************************************************)
InitAccount ==
  /\ given_log \in Logs
  /\ account = NewAccount(1, given_log)
  /\ k = 0
  /\ pc = "ready"
  /\ calls = 0
  /\ RunIdle
  /\ MemStart

\* process_account(&mut account) is entered
Call ==
  /\ pc \in {"ready", "returned"}
  /\ calls < MaxCalls
  /\ pc' = "loop"
  /\ k' = 1
  /\ calls' = calls + 1
  /\ UNCHANGED <<account, given_log>>
  /\ UNCHANGED runVars
  /\ UNCHANGED memVars

\* one iteration of `for transaction in &account.transaction_log`
LoopStep ==
  /\ pc = "loop"
  /\ k <= Len(account.transaction_log)
  /\ LET r == MatchArm(account, account.transaction_log[k])
     IN  IF r.ret
         THEN /\ pc' = "returned"
              /\ UNCHANGED <<account, k>>
         ELSE /\ account' = r.account
              /\ k' = k + 1
              /\ pc' = pc
  /\ UNCHANGED <<calls, given_log>>
  /\ UNCHANGED runVars
  /\ UNCHANGED memVars

\* the loop is over: account.transaction_log.clear()
LoopEnd ==
  /\ pc = "loop"
  /\ k > Len(account.transaction_log)
  /\ account' = [account EXCEPT !.transaction_log = <<>>]
  /\ pc' = "returned"
  /\ UNCHANGED <<k, calls, given_log>>
  /\ UNCHANGED runVars
  /\ UNCHANGED memVars

NextAccount == Call \/ LoopStep \/ LoopEnd

SpecAccount == InitAccount /\ [][NextAccount]_vars

(***************************************************************************)
(* Spec: run                                                               *)
(***************************************************************************)
Init ==
  /\ one_pass \in BOOLEAN
  /\ input \in Inputs
  /\ line_number = 0
  /\ sled_db = <<>>
  /\ client_accounts = {}
  /\ cursor = 0
  /\ output = <<>>
  /\ diagnostics = <<>>
  /\ phase = "ingest"
  /\ AccountIdle
  /\ MemStart

\* PushOp as it would be if the first pass applied the op while buffering it
PushOpApplies(account_, op) ==
  LET r == MatchArm([account_ EXCEPT !.transaction_log = Append(@, op)], op)
  IN  r.account

\* PushOp as it would be if the op went to the front of the log
PushOpFront(account_, op) ==
  [account_ EXCEPT !.transaction_log = <<op>> \o @]

\* account.transaction_log.push(record.into())
PushOp(account_, op) ==
  [account_ EXCEPT !.transaction_log = Append(@, op)]

\* one iteration of `for record in record_iter`
IngestRecord ==
  /\ phase = "ingest"
  /\ line_number < Len(input)
  /\ LET record == input[line_number + 1]
         client_id == record.client
         key == to_string(record.client)
         got == SledGet(sled_db, key)
         loaded == IF got = None THEN Some(NewAccount(record.client, <<>>))
                   ELSE deserialize(got[2])
     IN  IF loaded = None
         THEN \* bincode::deserialize(..)? is an Err: run returns it
              /\ phase' = "failed"
              /\ UNCHANGED <<line_number, sled_db, client_accounts>>
         ELSE LET pushed == PushOp(loaded[2], TransactionOpFrom(record))
                  marked == BitSet(client_accounts, client_id)
              IN  /\ line_number' = line_number + 1
                  /\ sled_db' = SledInsert(sled_db, to_string(client_id),
                                           serialize(pushed))
                  /\ IF marked = None
                     THEN /\ phase' = "panicked"
                          /\ UNCHANGED client_accounts
                     ELSE /\ client_accounts' = marked[2]
                          /\ phase' = phase
  /\ UNCHANGED <<one_pass, input, cursor, output, diagnostics>>
  /\ UNCHANGED accountVars
  /\ UNCHANGED memVars

\* the records are exhausted: "processing finished", print_output_header()
IngestDone ==
  /\ phase = "ingest"
  /\ line_number = Len(input)
  /\ phase' = "finalize"
  /\ cursor' = 0
  /\ UNCHANGED <<one_pass, input, line_number, sled_db, client_accounts,
                 output, diagnostics>>
  /\ UNCHANGED accountVars
  /\ UNCHANGED memVars

\* AccountMissing as it would be if a missing record ended the run
AccountMissingFatal(client) ==
  /\ phase' = "failed"
  /\ UNCHANGED <<output, diagnostics>>

\* `None => { eprint!("Account {} doesn't exist but should", client);
\* continue; }`
AccountMissing(client) ==
  /\ diagnostics' = Append(diagnostics, client)
  /\ UNCHANGED <<output, phase>>

\* one iteration of `for client in client_accounts.iter_ones()`
FinalizeAccount ==
  /\ phase = "finalize"
  /\ NextOne(client_accounts, cursor) # None
  /\ LET client == NextOne(client_accounts, cursor)[2]
         got == SledGet(sled_db, to_string(client))
     IN  /\ cursor' = client + 1
         /\ IF got = None
            THEN AccountMissing(client)
            ELSE LET loaded == deserialize(got[2])
                 IN  IF loaded = None
                     THEN /\ phase' = "failed"
                          /\ UNCHANGED <<output, diagnostics>>
                     ELSE /\ output' = Append(output, Row(process_account(loaded[2])))
                          /\ UNCHANGED <<diagnostics, phase>>
  /\ UNCHANGED <<one_pass, input, line_number, sled_db, client_accounts>>
  /\ UNCHANGED accountVars
  /\ UNCHANGED memVars

\* iter_ones is exhausted: Ok(())
FinalizeDone ==
  /\ phase = "finalize"
  /\ NextOne(client_accounts, cursor) = None
  /\ phase' = "done"
  /\ UNCHANGED <<one_pass, input, line_number, sled_db, client_accounts,
                 cursor, output, diagnostics>>
  /\ UNCHANGED accountVars
  /\ UNCHANGED memVars

\* a `?` of run returns an Err: opening the store or reading a record (any
\* time during ingestion), a get, serialize or insert of the store (while a
\* record or a marked client is still to be handled)
BackendError ==
  /\ \/ phase = "ingest"
     \/ phase = "finalize" /\ NextOne(client_accounts, cursor) # None
  /\ phase' = "failed"
  /\ UNCHANGED <<one_pass, input, line_number, sled_db, client_accounts,
                 cursor, output, diagnostics>>
  /\ UNCHANGED accountVars
  /\ UNCHANGED memVars

Next == IngestRecord \/ IngestDone \/ FinalizeAccount \/ FinalizeDone \/ BackendError

Spec == Init /\ [][Next]_vars

(***************************************************************************)
(* SpecBackends: run, then the in-memory path on the same records          *)
(***************************************************************************)
\* fn store_record(record, accounts): entry().and_modify(push).or_insert(..)
store_record(record, accounts_) ==
  IF record.client \in DOMAIN accounts_
  THEN [accounts_ EXCEPT ![record.client] = PushOp(@, TransactionOpFrom(record))]
  ELSE [c \in DOMAIN accounts_ \cup {record.client} |->
          IF c = record.client
          THEN NewAccount(record.client, <<TransactionOpFrom(record)>>)
          ELSE accounts_[c]]

\* one iteration of the commented-out `for record in record_iter` of the
\* one_pass branch: store_record(&record, &mut accounts).  The path is
\* taken on the records run has returned Ok on.
StoreRecord ==
  /\ phase = "done"
  /\ mem_phase = "store"
  /\ stored < Len(input)
  /\ accounts' = store_record(input[stored + 1], accounts)
  /\ stored' = stored + 1
  /\ UNCHANGED <<printed, mem_output, mem_phase>>
  /\ UNCHANGED accountVars
  /\ UNCHANGED runVars

\* the records are exhausted: print_accounts is entered, print_output_header()
StoreDone ==
  /\ phase = "done"
  /\ mem_phase = "store"
  /\ stored = Len(input)
  /\ mem_phase' = "print"
  /\ UNCHANGED <<accounts, stored, printed, mem_output>>
  /\ UNCHANGED accountVars
  /\ UNCHANGED runVars

\* one iteration of `for (_, account) in &mut accounts.iter_mut()`: the
\* HashMap yields its entries in an order of its own, any of them next
PrintAccount ==
  /\ mem_phase = "print"
  /\ \E c \in DOMAIN accounts \ printed :
       LET processed == process_account(accounts[c])
       IN  /\ accounts' = [accounts EXCEPT ![c] = processed]
           /\ mem_output' = Append(mem_output, Row(processed))
           /\ printed' = printed \cup {c}
  /\ UNCHANGED <<stored, mem_phase>>
  /\ UNCHANGED accountVars
  /\ UNCHANGED runVars

\* iter_mut() is exhausted: print_accounts returns
PrintDone ==
  /\ mem_phase = "print"
  /\ printed = DOMAIN accounts
  /\ mem_phase' = "done"
  /\ UNCHANGED <<accounts, stored, printed, mem_output>>
  /\ UNCHANGED accountVars
  /\ UNCHANGED runVars

NextBackends ==
  Next \/ StoreRecord \/ StoreDone \/ PrintAccount \/ PrintDone

SpecBackends == Init /\ [][NextBackends]_vars

(***************************************************************************)
(* SpecLossy: run over a store that may lose a record                      *)
(***************************************************************************)
\* the store no longer holds a record it was given: the inconsistency the
\* None arm of the finalization loop is written for
StoreLosesRecord ==
  /\ phase = "finalize"
  /\ \E key \in DOMAIN sled_db :
       sled_db' = [x \in DOMAIN sled_db \ {key} |-> sled_db[x]]
  /\ UNCHANGED <<one_pass, input, line_number, client_accounts, cursor,
                 output, diagnostics, phase>>
  /\ UNCHANGED accountVars
  /\ UNCHANGED memVars

NextLossy == Next \/ StoreLosesRecord

SpecLossy == Init /\ [][NextLossy]_vars

(***************************************************************************)
(* Vocabulary of the properties                                            *)
(***************************************************************************)
ValueKinds == {"Deposit", "Withdraw"}
ControlKinds == {"Dispute", "Resolve", "Chargeback"}

Funds(a) == <<a.available_funds, a.held_funds, a.total_funds>>
Observable(a) ==
  <<a.available_funds, a.held_funds, a.total_funds, a.locked, a.in_dispute>>

\* id refers to a Deposit or Withdraw of the log: the entry the log holds
\* first under that id is one
RefersToValueOp(log, id) ==
  \E j \in 1..Len(log) :
    /\ TxOf(log[j]) = id
    /\ Kind(log[j]) \in ValueKinds
    /\ \A i \in 1..(j - 1) : TxOf(log[i]) # id

\* the amount of the Deposit or Withdraw id refers to
ReferredAmount(log, id) ==
  AmountOf(log[CHOOSE j \in 1..Len(log) :
                 /\ TxOf(log[j]) = id
                 /\ \A i \in 1..(j - 1) : TxOf(log[i]) # id])

\* the loop of process_account is about to handle an op of this kind
About(kind) ==
  /\ pc = "loop"
  /\ k <= Len(account.transaction_log)
  /\ Kind(account.transaction_log[k]) = kind

\* ... a control op of this kind whose id refers to a Deposit or Withdraw
AboutValid(kind) ==
  /\ About(kind)
  /\ RefersToValueOp(account.transaction_log, TxOf(account.transaction_log[k]))

\* the amount that op is about
A == ReferredAmount(account.transaction_log, TxOf(account.transaction_log[k]))

\* the account after the first n ops of the log it was built with, in the
\* first call of process_account
AfterOps(n) == ReplayRange(NewAccount(1, given_log), 1, n).account

\* the first n ops are behind the loop of the first call
Applied(n) ==
  /\ calls = 1
  /\ \/ pc = "loop" /\ k = n + 1
     \/ pc = "returned" /\ k = n + 1 /\ n = Len(given_log)

(***************************************************************************)
(* C1..C8: process_account                                                 *)
(***************************************************************************)

\* C1: from a zero-balance account, total_funds = available_funds +
\* held_funds after every op process_account applies, for every log over the
\* five op kinds, aborting or not (amounts exact).
C1_TotalIsAvailablePlusHeld ==
  account.total_funds = account.available_funds + account.held_funds

\* C1 witness: a Chargeback and a Resolve nobody disputed have been applied
\* after a Deposit, and held_funds is negative.
C1_Witness ==
  /\ Applied(3)
  /\ Kind(given_log[1]) = "Deposit"
  /\ Kind(given_log[2]) = "Chargeback"
  /\ Kind(given_log[3]) = "Resolve"
  /\ account.held_funds < 0
  /\ account.available_funds > 0

\* C2: a Dispute whose id refers to a Deposit or Withdraw of amount A moves
\* exactly A from available_funds to held_funds, leaves total_funds
\* unchanged and sets in_dispute.
C2_DisputeMovesAmount ==
  [][AboutValid("Dispute") =>
       /\ account'.available_funds = account.available_funds - A
       /\ account'.held_funds = account.held_funds + A
       /\ account'.total_funds = account.total_funds
       /\ account'.in_dispute = TRUE
       /\ k' = k + 1]_vars

\* C2 witness: test_process_dispute's shape, a Dispute of the second of two
\* Deposits has been applied.
C2_Witness ==
  /\ Applied(4)
  /\ given_log = <<Deposit(1, 3), Deposit(2, 3), Withdraw(1, 2), Dispute(2)>>
  /\ Funds(account) = <<1, 3, 4>>
  /\ account.in_dispute

\* the Resolve at position j directly follows a Dispute of the same id
ResolveFollowsDispute(j) ==
  /\ j >= 2 /\ j <= Len(given_log)
  /\ Kind(given_log[j - 1]) = "Dispute"
  /\ Kind(given_log[j]) = "Resolve"
  /\ TxOf(given_log[j - 1]) = TxOf(given_log[j])

\* C3: a Resolve after a successful Dispute of the same id reverses the
\* hold: held -= A, available += A, total and locked unchanged, so that the
\* funds and locked are what they were just before the Dispute.
C3_ResolveReversesHold ==
  /\ [](\A j \in 1..MaxLogLen :
          (ResolveFollowsDispute(j) /\ Applied(j)) =>
             /\ Funds(account) = Funds(AfterOps(j - 2))
             /\ account.locked = AfterOps(j - 2).locked)
  /\ [][AboutValid("Resolve") =>
          /\ account'.held_funds = account.held_funds - A
          /\ account'.available_funds = account.available_funds + A
          /\ account'.total_funds = account.total_funds
          /\ account'.locked = account.locked
          /\ k' = k + 1]_vars

\* C3 witness: test_process_resolve's shape, Dispute then Resolve applied.
C3_Witness ==
  /\ Applied(4)
  /\ given_log = <<Deposit(1, 3), Deposit(2, 2), Dispute(2), Resolve(2)>>
  /\ Funds(account) = <<5, 0, 5>>
  /\ ~account.locked

\* C4: a Chargeback after a successful Dispute of amount A takes A off
\* held_funds and total_funds and sets locked, and no later step of any
\* replay sets locked back to false.
C4_ChargebackLocks ==
  [][/\ AboutValid("Chargeback") =>
          /\ account'.held_funds = account.held_funds - A
          /\ account'.total_funds = account.total_funds - A
          /\ account'.available_funds = account.available_funds
          /\ account'.locked = TRUE
          /\ k' = k + 1
     /\ account.locked => account'.locked]_vars

\* C4 witness: Deposit, Dispute, Chargeback, and one more Deposit applied
\* to the locked account.
C4_Witness ==
  /\ Applied(4)
  /\ pc = "returned"
  /\ given_log = <<Deposit(1, 3), Dispute(1), Chargeback(1), Deposit(2, 2)>>
  /\ account.locked
  /\ account.held_funds = 0

\* C5: once a Chargeback has locked the account, no later op of the log
\* alters available_funds, held_funds or total_funds.
C5_LockedFundsFrozen ==
  [][(calls = 1 /\ account.locked) => Funds(account') = Funds(account)]_vars

\* position j holds the first control op of the log whose id does not refer
\* to a Deposit or Withdraw
FirstBadReference(log, j) ==
  /\ j \in 1..Len(log)
  /\ Kind(log[j]) \in ControlKinds
  /\ ~RefersToValueOp(log, TxOf(log[j]))
  /\ \A i \in 1..(j - 1) :
       Kind(log[i]) \in ControlKinds => RefersToValueOp(log, TxOf(log[i]))

C7_LogDrained ==
  /\ pc = "returned" => account.transaction_log = <<>>
  /\ (pc = "returned" /\ calls = 2) =>
        account = process_account(NewAccount(1, given_log))

RECURSIVE Net(_)
\* deposited amounts minus withdrawn amounts of a log of value ops
Net(log) ==
  IF log = <<>> THEN 0
  ELSE (IF Kind(Head(log)) = "Deposit" THEN AmountOf(Head(log))
        ELSE -AmountOf(Head(log))) + Net(Tail(log))

OnlyValueOps(log) == \A i \in 1..Len(log) : Kind(log[i]) \in ValueKinds

\* C8: for a log of Deposits and Withdraws only, process_account leaves
\* held_funds = 0, total_funds = available_funds = deposits - withdrawals
\* (no floor: possibly negative), locked = false and in_dispute = false.
C8_ValueOpsOnly ==
  (pc = "returned" /\ OnlyValueOps(given_log)) =>
     /\ account.held_funds = 0
     /\ account.available_funds = Net(given_log)
     /\ account.total_funds = Net(given_log)
     /\ account.locked = FALSE
     /\ account.in_dispute = FALSE
     /\ account.transaction_log = <<>>

\* C8 witness: more was withdrawn than deposited.
C8_Witness ==
  /\ pc = "returned"
  /\ given_log = <<Deposit(1, 2), Withdraw(2, 3), Withdraw(1, 3)>>
  /\ account.available_funds = -4
  /\ account.total_funds = -4

(***************************************************************************)
(* C9, C10: run                                                            *)
(***************************************************************************)
\* the client ids of the first n input records
ClientsOf(n) == {input[i].client : i \in 1..n}

\* the client id of the i-th printed row
OutputId(i) == output[i][1]

\* C9: run prints one row for each client id of the input and none for
\* another id, in strictly ascending id order, and prints no row before the
\* whole input has been read.
C9_OneRowPerClientAscending ==
  /\ \A i, j \in 1..Len(output) : i < j => OutputId(i) < OutputId(j)
  /\ \A i \in 1..Len(output) : OutputId(i) \in ClientsOf(Len(input))
  /\ output # <<>> => (line_number = Len(input) /\ phase # "ingest")
  /\ phase = "done" =>
       {OutputId(i) : i \in 1..Len(output)} = ClientsOf(Len(input))

\* C9 witness: run returned Ok after three records of three clients; the
\* rows are those of clients 0, 7, 65535.
C9_Witness ==
  /\ phase = "done"
  /\ Len(output) = 3
  /\ input[1].client = 65535
  /\ OutputId(1) = 0 /\ OutputId(2) = 7 /\ OutputId(3) = 65535

\* C10: the ids marked in client_accounts are exactly the client ids of the
\* records read so far (of the whole input once ingestion is over), for ids
\* 0 and 65535 as for any other; marking never fails and marking a marked id
\* changes nothing.
C10_RegistryIsClientsSeen ==
  /\ phase # "panicked"
  /\ client_accounts = ClientsOf(line_number)
  /\ phase \in {"finalize", "done"} => line_number = Len(input)

\* C10 witness: ingestion is over; clients 0 and 65535 were seen, one of
\* them twice, and nobody else.
C10_Witness ==
  /\ phase = "finalize"
  /\ Len(input) = 3
  /\ input[1].client = 65535 /\ input[2].client = 0 /\ input[3].client = 65535
  /\ client_accounts = {0, 65535}

(***************************************************************************)
(* C11..C20: the two backends, failures, ordering and frames               *)
(***************************************************************************)

\* C11: on the same records, the in-memory path (store_record for every
\* record, then print_accounts) prints the same rows, with the same field
\* values, in the same order, as the sled-backed loop of run.
C11_BackendsPrintTheSame ==
  (phase = "done" /\ mem_phase = "done") => mem_output = output

\* C12: when a backend operation fails, at any point of run, no account row
\* has been printed.
C12_NoRowsOnFailure ==
  phase = "failed" => output = <<>>

\* the finalization loop is about to read a marked client the store holds
\* no record of
NextIsMissing ==
  /\ phase = "finalize"
  /\ NextOne(client_accounts, cursor) # None
  /\ to_string(NextOne(client_accounts, cursor)[2]) \notin DOMAIN sled_db

\* C13: when a marked client has no stored record, the finalization loop
\* reports the id, prints no row for it, goes on to the remaining marked ids
\* and run still returns Ok.
C13_MissingAccountSkipped ==
  /\ [](\A i \in 1..Len(diagnostics) :
          /\ diagnostics[i] \in client_accounts
          /\ \A j \in 1..Len(output) : OutputId(j) # diagnostics[i])
  /\ [](phase = "done" =>
          {OutputId(j) : j \in 1..Len(output)}
            \cup {diagnostics[i] : i \in 1..Len(diagnostics)} = client_accounts)
  /\ [][(NextIsMissing /\ cursor' # cursor) =>
          /\ diagnostics' =
               Append(diagnostics, NextOne(client_accounts, cursor)[2])
          /\ output' = output
          /\ phase' = "finalize"]_vars

\* C13 witness: run returned Ok; the record of client 7 was missing and
\* reported, the rows of clients 0 and 65535 were printed around it.
C13_Witness ==
  /\ phase = "done"
  /\ diagnostics = <<7>>
  /\ Len(output) = 2
  /\ OutputId(1) = 0 /\ OutputId(2) = 65535

\* C14: the one_pass argument decides the backend: with one_pass the
\* accounts live in the in-memory mapping and the persistent store is not
\* used, without it the persistent store holds them and the mapping is not
\* used; the choice holds for the whole run.
C14_BackendFollowsOnePass ==
  /\ one_pass =>
       /\ sled_db = <<>>
       /\ DOMAIN accounts = ClientsOf(line_number)
  /\ ~one_pass =>
       /\ accounts = <<>>
       /\ {to_string(c) : c \in ClientsOf(line_number)} = DOMAIN sled_db

\* the ops of the first n input records addressed to client c, in arrival
\* order
OpsOf(c, n) ==
  LET mine == SelectSeq(SubSeq(input, 1, n), LAMBDA r : r.client = c)
  IN  [i \in 1..Len(mine) |-> TransactionOpFrom(mine[i])]

\* the Account the store holds for client c
StoredAccount(c) == deserialize(sled_db[to_string(c)])[2]

\* C15: no transaction is applied twice across the two passes: every stored
\* account keeps available = held = total = 0 and locked = false (ingestion
\* only buffers), no row exists before the last record is ingested, every
\* marked client is finalized exactly once, and a finalized balance counts
\* each Deposit and Withdraw of the client once.
C15_BufferThenDrainOnce ==
  /\ \A c \in client_accounts :
       to_string(c) \in DOMAIN sled_db =>
          /\ Funds(StoredAccount(c)) = <<0, 0, 0>>
          /\ StoredAccount(c).locked = FALSE
  /\ output # <<>> => line_number = Len(input)
  /\ \A i, j \in 1..Len(output) : i # j => OutputId(i) # OutputId(j)
  /\ phase = "done" =>
       \A c \in client_accounts : \E i \in 1..Len(output) : OutputId(i) = c
  /\ \A i \in 1..Len(output) :
       LET ops == OpsOf(OutputId(i), Len(input))
       IN  OnlyValueOps(ops) =>
              /\ output[i][2] = Net(ops)
              /\ output[i][4] = Net(ops)

\* C15 witness: run returned Ok on two Deposits and a Withdrawal of client
\* 7; its one row counts each of them once.
C15_Witness ==
  /\ phase = "done"
  /\ Len(input) = 3
  /\ \A i \in 1..3 : input[i].client = 7
  /\ input[1].transaction_type = "Deposit"
  /\ input[2].transaction_type = "Deposit"
  /\ input[3].transaction_type = "Withdrawal"
  /\ output = <<<<7, 5, 0, 5, FALSE>>>>

\* C16: after any prefix of the input is ingested, the stored
\* transaction_log of each client is the subsequence of the ingested records
\* addressed to it, in arrival order, nothing lost, duplicated or reordered
\* (and no record is stored for a client without one); the printed row is
\* process_account's replay of that log in that order.
C16_StoredLogIsArrivalOrder ==
  /\ DOMAIN sled_db = {to_string(c) : c \in ClientsOf(line_number)}
  /\ \A c \in ClientsOf(line_number) :
       /\ deserialize(sled_db[to_string(c)]) # None
       /\ StoredAccount(c).transaction_log = OpsOf(c, line_number)
       /\ StoredAccount(c).id = c
  /\ \A i \in 1..Len(output) :
       output[i] =
         Row(process_account(NewAccount(OutputId(i),
                                        OpsOf(OutputId(i), Len(input)))))

\* C16 witness: the records of clients 7 and 0 were interleaved; the log of
\* client 7 holds its Deposit and then its Dispute.
C16_Witness ==
  /\ phase = "ingest"
  /\ line_number = 3
  /\ input[1].client = 7 /\ input[2].client = 0 /\ input[3].client = 7
  /\ StoredAccount(7).transaction_log = <<Deposit(1, 5), Dispute(1)>>
  /\ StoredAccount(0).transaction_log = <<Withdraw(1, 5)>>

\* after the first n ops of the log, transaction id is under dispute: a
\* Dispute of it was applied and no Resolve or Chargeback of it since
UnderDispute(log, n, id) ==
  \E i \in 1..n :
    /\ Kind(log[i]) = "Dispute" /\ TxOf(log[i]) = id
    /\ \A j \in (i + 1)..n :
         ~(Kind(log[j]) \in {"Resolve", "Chargeback"} /\ TxOf(log[j]) = id)

\* C17: a Resolve or Chargeback of a transaction that is not under dispute
\* (never disputed, or its dispute already closed) is ignored: it changes
\* none of available_funds, held_funds, total_funds, locked.
C17_UndisputedIsIgnored ==
  [][(/\ calls = 1
      /\ About("Resolve") \/ About("Chargeback")
      /\ ~UnderDispute(account.transaction_log, k - 1,
                       TxOf(account.transaction_log[k])))
       => (Funds(account') = Funds(account) /\ account'.locked = account.locked)]_vars

\* the id of the last of the first n ops of the log whose kind is in kinds,
\* 0 (the initial last_processed_transaction) when there is none
LastIdOf(kinds, n) ==
  LET hits == {i \in 1..n : Kind(given_log[i]) \in kinds}
  IN  IF hits = {} THEN 0
      ELSE TxOf(given_log[CHOOSE i \in hits : \A j \in hits : j <= i])

\* C18 as claimed: at every point of a replay last_processed_transaction is
\* the id of the most recently applied Deposit, Withdraw or Chargeback.
C18_LastIsValueOrChargeback ==
  calls = 1 =>
    account.last_processed_transaction =
      LastIdOf({"Deposit", "Withdraw", "Chargeback"}, k - 1)

\* C18 as amended: at every point of a replay last_processed_transaction is
\* the id of the most recently applied Deposit, Withdraw, Dispute or
\* Chargeback (a Resolve leaves it alone), 0 when none was applied.
C18_LastIsLatestNonResolve ==
  calls = 1 =>
    account.last_processed_transaction =
      LastIdOf({"Deposit", "Withdraw", "Dispute", "Chargeback"}, k - 1)

\* C18 witness: after Deposits 1 and 2, a Dispute of 2 and a Resolve of 1,
\* last_processed_transaction is still the Dispute's 2.
C18_Witness ==
  /\ Applied(4)
  /\ given_log = <<Deposit(1, 2), Deposit(2, 3), Dispute(2), Resolve(1)>>
  /\ account.last_processed_transaction = 2

\* C19: ingesting a record of client c changes the stored record and the
\* registry bit of c only, and no step of the finalization changes a stored
\* record or a bit.
C19_IngestTouchesOneClient ==
  [][/\ (phase = "ingest" /\ line_number' # line_number) =>
          LET c == input[line_number + 1].client
          IN  /\ \A d \in Clients \ {c} :
                   SledGet(sled_db', to_string(d)) = SledGet(sled_db, to_string(d))
              /\ DOMAIN sled_db' \subseteq DOMAIN sled_db \cup {to_string(c)}
              /\ client_accounts' \ {c} = client_accounts \ {c}
     /\ (phase # "ingest" \/ line_number' = line_number) =>
          (sled_db' = sled_db /\ client_accounts' = client_accounts)]_vars

\* C19 witness: two records of client 0 are stored, then one of client 7 was
\* ingested; the finalization has printed a row and the store still holds
\* both logs.
C19_Witness ==
  /\ phase = "finalize"
  /\ Len(output) = 1
  /\ Len(input) = 3
  /\ input[3].client = 7
  /\ StoredAccount(0).transaction_log = OpsOf(0, 2)
  /\ Len(StoredAccount(0).transaction_log) = 2
  /\ StoredAccount(7).transaction_log = OpsOf(7, 3)

\* C20: every client id marked in the registry has a stored record, so the
\* finalization loop never reports a missing account.
C20_MarkedHasRecord ==
  /\ \A c \in client_accounts : SledGet(sled_db, to_string(c)) # None
  /\ diagnostics = <<>>

\* C20 witness: run returned Ok with three clients marked, each row printed
\* from its stored record.
C20_Witness ==
  /\ phase = "done"
  /\ client_accounts = {0, 7, 65535}
  /\ Len(output) = 3
  /\ input[1].client = 7

\* the loop of process_account is about to handle a control op
AboutControl ==
  /\ pc = "loop"
  /\ k <= Len(account.transaction_log)
  /\ Kind(account.transaction_log[k]) \in ControlKinds

\* the position of the first entry of the log that carries id
FirstWith(log, id) ==
  CHOOSE j \in 1..Len(log) :
    /\ TxOf(log[j]) = id
    /\ \A i \in 1..(j - 1) : TxOf(log[i]) # id

====
